---- MODULE Spec2Model ----
(***************************************************************************)
(* Model of src/si/supervised/nn.py: the layers (Dense, Activation,        *)
(* Flatten, Conv2D, MaxPooling2D) and the network orchestrator NN (add,    *)
(* fit, fit_batch, predict, cost).                                         *)
(*                                                                         *)
(* Tensors.  A tensor is [dims, data]: data holds one scalar per sample    *)
(* (the leading axis), dims the trailing axes of its shape, so that        *)
(* shape = <<Len(data)>> \o dims.  Every sample is constant along its      *)
(* trailing axes and every parameter tensor is constant across its         *)
(* entries; arithmetic is carried out in the ring Z_Modulus.  Shapes,      *)
(* caches, control flow, exceptions and the order of assignments are       *)
(* those of the code.                                                      *)
(***************************************************************************)
EXTENDS Integers, Sequences, FiniteSets, TLC

\* ---- bounds of the model
MaxLayers == 2
MaxEpochs == 2
MaxN == 3
MaxCalls == 2
Modulus == 3

\* ---- inputs of the model
ImageSizes == {2, 3}
InitWeights == {1}
LearningRates == {1}

\* ---- arithmetic helpers
Md(x) == x % Modulus

RECURSIVE SumSeq(_)
SumSeq(s) == IF s = <<>> THEN 0 ELSE Head(s) + SumSeq(Tail(s))

RECURSIVE Prod(_)
Prod(s) == IF s = <<>> THEN 1 ELSE Head(s) * Prod(Tail(s))

Min(a, b) == IF a < b THEN a ELSE b

\* int(np.ceil(n / b))
Ceil(n, b) == (n + b - 1) \div b

\* ---- tensors
None == [dims |-> <<>>, data |-> <<>>]
NoShape == <<>>
Tensor(dims, data) == [dims |-> dims, data |-> data]
Shape(t) == <<Len(t.data)>> \o t.dims

\* t[lo:hi, ] with Python's clipping of the upper index (0-based, hi excluded)
Slice(t, lo, hi) ==
    Tensor(t.dims, SubSeq(t.data, lo + 1, Min(hi, Len(t.data))))

\* ---- caller-supplied functions (NN.useLoss, Activation(func))
\* loss value: a scalar; loss derivative: a tensor shaped like the prediction
loss(y, out) ==
    SumSeq([i \in 1..Len(out.data) |-> Md((out.data[i] - y.data[i]) * (out.data[i] - y.data[i]))])
loss_prime(y, out) ==
    Tensor(out.dims, [i \in 1..Len(out.data) |-> Md(out.data[i] - y.data[i])])
activation(x) == Md(x * x)
activation_prime(x) == Md(2 * x)

\* ---- layers
\* One record type for every layer class; a field a class does not have (or has
\* not assigned yet) holds None / NoShape / 0.
NewLayer(kind) ==
    [kind |-> kind,
     weights |-> 0, bias |-> 0, wshape |-> NoShape, bshape |-> NoShape,
     size |-> 0, stride |-> 0, padding |-> 0,
     input |-> None, output |-> None, input_shape |-> NoShape,
     X_shape |-> NoShape, X_col |-> None, max_idx |-> 0]

\* Dense.__init__
Dense(input_size, output_size, w0) ==
    [NewLayer("Dense") EXCEPT !.weights = w0, !.bias = 0,
        !.wshape = <<input_size, output_size>>, !.bshape = <<1, output_size>>]

\* Activation.__init__
Activation == NewLayer("Activation")

\* Flatten (no constructor of its own)
Flatten == NewLayer("Flatten")

\* Conv2D.__init__: weights (kH, kW, in_ch, out_ch), bias (out_ch, 1)
Conv2D(in_ch, k, layer_depth, stride, padding, w0) ==
    [NewLayer("Conv2D") EXCEPT !.weights = w0, !.bias = 0,
        !.wshape = <<k, k, in_ch, layer_depth>>, !.bshape = <<layer_depth, 1>>,
        !.stride = stride, !.padding = padding]

\* Pooling2D.__init__ (MaxPooling2D)
MaxPooling2D(size, stride) ==
    [NewLayer("MaxPooling2D") EXCEPT !.size = size, !.stride = stride]

\* the learnable parameters of a layer
Params(l) == <<l.weights, l.bias, l.wshape, l.bshape>>

\* a call's result: the layer after the call, the returned tensor, raised or not
Ret(l, out) == [layer |-> l, out |-> out, raised |-> FALSE, why |-> "none"]
Raise(l, why) == [layer |-> l, out |-> None, raised |-> TRUE, why |-> why]

\* ---- im2col.py (pad2D, im2col, col2im)
\* pad2D(X, pad, kernel_shape, stride): symmetric padding (pr1, pr2, pc1, pc2)
pad2D(p) == <<p, p, p, p>>

\* im2col: one column per receptive field; it needs a positive output extent
\* and an input with the channel count of the kernel
im2colDefined(out_rows, out_cols, d, in_ch) ==
    out_rows > 0 /\ out_cols > 0 /\ d = in_ch

im2col(t, rows, cols) == [dims |-> <<rows, cols>>, data |-> t.data]

\* col2im: back to the shape X_shape
col2im(data, X_shape) == Tensor(Tail(X_shape), data)

\* ---- Dense
\* np.dot(input, weights) contracts the last axis of input with input_size
DenseForward(l, t) ==
    LET l1 == [l EXCEPT !.input = t]
        r == Len(t.dims)
    IN  IF r = 0 \/ t.dims[r] # l.wshape[1]
        THEN Raise(l1, "shape")             \* np.dot: shapes not aligned
        ELSE LET out == Tensor(SubSeq(t.dims, 1, r - 1) \o <<l.wshape[2]>>,
                          [i \in 1..Len(t.data) |->
                              Md(l.wshape[1] * t.data[i] * l.weights + l.bias)])
             IN  Ret([l1 EXCEPT !.output = out], out)

\* With an input of more than two axes np.dot(self.input.T, output_error)
\* either fails or yields more than two axes, which the in-place update of
\* weights cannot hold: the call raises before anything is assigned.
DenseBackward(l, g, lr) ==
    IF \/ Len(l.input.dims) # 1
       \/ Len(g.data) # Len(l.input.data)
       \/ g.dims # <<l.wshape[2]>>
    THEN Raise(l, "shape")                  \* np.dot: shapes not aligned
    ELSE
    LET n == Len(g.data)
        weights_error == SumSeq([i \in 1..n |-> l.input.data[i] * g.data[i]])
        bias_error == SumSeq(g.data)
        input_error == Tensor(l.input.dims, [i \in 1..n |-> Md(g.data[i] * l.weights)])
    IN  Ret([l EXCEPT !.weights = Md(l.weights - lr * weights_error),
                      !.bias = Md(l.bias - lr * bias_error)],
            input_error)

\* ---- Activation
ActivationForward(l, t) ==
    LET out == Tensor(t.dims, [i \in 1..Len(t.data) |-> activation(t.data[i])])
    IN  Ret([l EXCEPT !.input = t, !.output = out], out)

ActivationBackward(l, g, lr) ==
    IF Shape(g) # Shape(l.input)
    THEN Raise(l, "shape")                  \* np.multiply: operands do not broadcast
    ELSE Ret(l, Tensor(g.dims, [i \in 1..Len(g.data) |->
                          Md(activation_prime(l.input.data[i]) * g.data[i])]))

\* ---- Flatten
FlattenForward(l, t) ==
    Ret([l EXCEPT !.input_shape = Shape(t)], Tensor(<<Prod(t.dims)>>, t.data))

FlattenBackward(l, g, lr) ==
    IF Prod(Shape(g)) # Prod(l.input_shape)
    THEN Raise(l, "shape")                  \* reshape: sizes differ
    ELSE Ret(l, Tensor(Tail(l.input_shape), g.data))

\* ---- Conv2D
\* out = int((in + pr1 + pr2 - f) / s + 1)
ConvOut(in, p1, p2, f, s) == (in + p1 + p2 - f) \div s + 1

Conv2DForward(l, t) ==
    LET l1 == [l EXCEPT !.X_shape = Shape(t)]
        p == pad2D(l.padding)
    IN  IF Len(t.dims) # 3
        THEN Raise(l1, "shape")             \* input.shape does not unpack to 4 values
        ELSE
        LET fr == l.wshape[1]
            fc == l.wshape[2]
            in_ch == l.wshape[3]
            out_ch == l.wshape[4]
            n_ex == Len(t.data)
            out_rows == ConvOut(t.dims[1], p[1], p[2], fr, l.stride)
            out_cols == ConvOut(t.dims[2], p[3], p[4], fc, l.stride)
        IN  IF ~im2colDefined(out_rows, out_cols, t.dims[3], in_ch)
            THEN Raise(l1, "im2col")
            ELSE
            LET X_col == im2col(t, fr * fc * in_ch, n_ex * out_rows * out_cols)
                out == Tensor(<<out_rows, out_cols, out_ch>>,
                          [i \in 1..n_ex |->
                              Md(fr * fc * in_ch * t.data[i] * l.weights + l.bias)])
            IN  Ret([l1 EXCEPT !.X_col = X_col], out)

Conv2DBackward(l, g, lr) ==
    IF \/ Len(g.dims) # 3
       \/ g.dims[3] # l.wshape[4]
       \/ Len(g.data) * g.dims[1] * g.dims[2] # l.X_col.dims[2]
    THEN Raise(l, "shape")                  \* np.sum axis / reshape / matmul
    ELSE
    LET n == Len(g.data)
        out_ch == l.wshape[4]
        db == g.dims[1] * g.dims[2] * SumSeq(g.data)
        dW == g.dims[1] * g.dims[2] * SumSeq([i \in 1..n |-> l.X_col.data[i] * g.data[i]])
        input_error == col2im([i \in 1..n |-> Md(g.data[i] * l.weights)], l.X_shape)
        l1 == [l EXCEPT !.weights = Md(l.weights - lr * dW)]
    IN  IF out_ch > 1
        \* self.bias (out_ch, 1) -= db (out_ch,): the operands broadcast to
        \* (out_ch, out_ch), which the in-place output cannot hold
        THEN Raise(l1, "bias")
        ELSE Ret([l1 EXCEPT !.bias = Md(l.bias - lr * db)], input_error)

\* ---- Pooling2D / MaxPooling2D
\* ((dim - size) / stride + 1).is_integer()
IsInteger(dim, size, stride) == (dim - size) % stride = 0

Pooling2DForward(l, t) ==
    LET l1 == [l EXCEPT !.X_shape = Shape(t)]
    IN  IF Len(t.dims) # 3
        THEN Raise(l1, "shape")             \* input.shape does not unpack to 4 values
        ELSE
        LET n == Len(t.data)
            h == t.dims[1]
            w == t.dims[2]
            d == t.dims[3]
        IN  IF ~IsInteger(w, l.size, l.stride) \/ ~IsInteger(h, l.size, l.stride)
            THEN Raise(l1, "geometry")      \* 'Invalid output dimension'
            ELSE
            LET h_out == (h - l.size) \div l.stride + 1
                w_out == (w - l.size) \div l.stride + 1
            IN  IF ~im2colDefined(h_out, w_out, 1, 1)
                THEN Raise(l1, "im2col")
                ELSE
                LET X_col == im2col(t, l.size * l.size, n * d * h_out * w_out)
                IN  \* MaxPooling2D.pool: one index per column
                    Ret([l1 EXCEPT !.X_col = X_col, !.max_idx = X_col.dims[2]],
                        Tensor(<<h_out, w_out, d>>, t.data))

Pooling2DBackward(l, g, lr) ==
    IF Prod(Shape(g)) # l.max_idx
    THEN Raise(l, "shape")                  \* MaxPooling2D.dpool: index / value sizes differ
    ELSE Ret(l, col2im(g.data, l.X_shape))

\* ---- layer.forward(input) / layer.backward(erro, learning_rate)
Forward(l, t) ==
    CASE l.kind = "Dense" -> DenseForward(l, t)
      [] l.kind = "Activation" -> ActivationForward(l, t)
      [] l.kind = "Flatten" -> FlattenForward(l, t)
      [] l.kind = "Conv2D" -> Conv2DForward(l, t)
      [] l.kind = "MaxPooling2D" -> Pooling2DForward(l, t)

Backward(l, g, lr) ==
    CASE l.kind = "Dense" -> DenseBackward(l, g, lr)
      [] l.kind = "Activation" -> ActivationBackward(l, g, lr)
      [] l.kind = "Flatten" -> FlattenBackward(l, g, lr)
      [] l.kind = "Conv2D" -> Conv2DBackward(l, g, lr)
      [] l.kind = "MaxPooling2D" -> Pooling2DBackward(l, g, lr)

\* setWeights assigning the weights before it checks the bias
setWeightsEager(l, weights, bias) ==
    IF weights.shape # l.wshape
    THEN Raise(l, "shape")
    ELSE IF bias.shape # l.bshape
    THEN Raise([l EXCEPT !.weights = weights.val], "shape")
    ELSE Ret([l EXCEPT !.weights = weights.val, !.bias = bias.val], None)

\* Dense.setWeights(weights, bias); an argument is [shape, val]
setWeights(l, weights, bias) ==
    IF weights.shape # l.wshape
    THEN Raise(l, "shape")
    ELSE IF bias.shape # l.bshape
    THEN Raise(l, "shape")
    ELSE Ret([l EXCEPT !.weights = weights.val, !.bias = bias.val], None)

\* ---- datasets (Dataset.getXy, Dataset.X, Dataset.Y)
Data(n, off) == [i \in 1..n |-> Md(i + off)]
Table(n) == [X |-> Tensor(<<1>>, Data(n, 0)), Y |-> Tensor(<<1>>, Data(n, 1))]
Images(n, h) == [X |-> Tensor(<<h, h, 1>>, Data(n, 0)), Y |-> Tensor(<<1>>, Data(n, 1))]
NoDataset == [X |-> None, Y |-> None]
\* training sets: one table of MaxN samples, one image per image size
Datasets == {Table(MaxN)} \cup {Images(1, h) : h \in ImageSizes}
\* inputs of predict and cost: a table of one sample and the images
Inputs == {Table(1)} \cup {Images(1, h) : h \in ImageSizes}
\* batch sizes: up to one more than the sample count
BatchSizes(d) == 1..(Len(d.X.data) + 1)

LayerCatalog ==
    {Dense(1, 1, w) : w \in InitWeights}
    \cup {Activation, Flatten, MaxPooling2D(2, 2)}
    \cup {Conv2D(1, 2, oc, 2, 0, w) : oc \in {1, 2}, w \in InitWeights}

WeightArgs == {[shape |-> sh, val |-> 2] : sh \in {<<1, 1>>, <<2, 1>>}}
BiasArgs == {[shape |-> sh, val |-> 1] : sh \in {<<1, 1>>, <<1, 2>>}}

\* ---- the network (class NN)
VARIABLES
    layers,         \* self.layers
    epochs,         \* self.epochs
    lr,             \* self.lr
    is_fitted,      \* self.is_fitted
    dataset,        \* self.dataset (NoDataset: not assigned yet)
    history,        \* self.history, keys 0..Len-1 (<<>>: empty or not assigned yet)
    history_batch,  \* self.history_batch
    pc,             \* position of the running call; "idle": no call is running
    call,           \* the running call's local variables
    log,            \* layer calls of the last call's current sweep: [op, layer, arg, ret]
    pre,            \* the object as it was when the last call was entered
    epochPre,       \* the object as it was when the current epoch began
    last,           \* last call: its arguments, how it ended, what it returned
    sweeps,         \* per epoch of the last training call, the row ranges swept
    losses,         \* per epoch of the last training call, the sweeps' loss values
    everFitted,     \* a fit or fit_batch call has completed
    ncalls          \* number of calls made so far

vars == <<layers, epochs, lr, is_fitted, dataset, history, history_batch, pc, call,
          log, pre, epochPre, last, sweeps, losses, everFitted, ncalls>>

Snapshot == [layers |-> layers, dataset |-> dataset, history |-> history,
             is_fitted |-> is_fitted]

NoCall == [op |-> "none", X |-> None, y |-> None, batchsize |-> 0, n_batches |-> 0,
           epoch |-> 0, batch |-> 0, idx |-> 0, output |-> None, ychunk |-> None,
           error |-> None]

NoLast == [op |-> "none", outcome |-> "none", why |-> "none", layer |-> 0,
           phase |-> "none", n |-> 0, b |-> 0, X |-> None, Y |-> None,
           ret |-> None, value |-> 0]

Started(op, X, Y, b) ==
    [NoLast EXCEPT !.op = op, !.outcome = "running", !.n = Len(X.data), !.b = b,
                   !.X = X, !.Y = Y]

\* NN.__init__
Init ==
    /\ layers = <<>>
    /\ epochs = MaxEpochs
    /\ lr \in LearningRates
    /\ is_fitted = FALSE
    /\ dataset = NoDataset
    /\ history = <<>>
    /\ history_batch = <<>>
    /\ pc = "idle"
    /\ call = NoCall
    /\ log = <<>>
    /\ pre = [layers |-> <<>>, dataset |-> NoDataset, history |-> <<>>, is_fitted |-> FALSE]
    /\ epochPre = [layers |-> <<>>, dataset |-> NoDataset, history |-> <<>>, is_fitted |-> FALSE]
    /\ last = NoLast
    /\ sweeps = <<>>
    /\ losses = <<>>
    /\ everFitted = FALSE
    /\ ncalls = 0

CanCall == pc = "idle" /\ ncalls < MaxCalls

\* Number of axes a layer class reads and writes (0: any).  The networks and
\* inputs of the model are those whose numbers of axes fit together: a Conv2D
\* or MaxPooling2D layer reads 4 axes, a Dense layer 2; geometry, channel
\* and feature counts are left free.
InRank(l) ==
    CASE l.kind \in {"Conv2D", "MaxPooling2D"} -> 4
      [] l.kind = "Dense" -> 2
      [] OTHER -> 0

RECURSIVE OutRank(_)
OutRank(ls) ==
    IF ls = <<>> THEN 0
    ELSE LET l == ls[Len(ls)]
         IN  CASE l.kind \in {"Conv2D", "MaxPooling2D"} -> 4
               [] l.kind \in {"Dense", "Flatten"} -> 2
               [] OTHER -> OutRank(SubSeq(ls, 1, Len(ls) - 1))

RECURSIVE StackInRank(_)
StackInRank(ls) ==
    IF ls = <<>> THEN 0
    ELSE CASE Head(ls).kind = "Activation" -> StackInRank(Tail(ls))
           [] Head(ls).kind = "Flatten" -> 0
           [] OTHER -> InRank(Head(ls))

Fits(a, b) == a = 0 \/ b = 0 \/ a = b
Accepts(t) == Fits(StackInRank(layers), Len(t.dims) + 1)

\* NN.add (the network is built before its first use)
Add(layer) ==
    /\ pc = "idle"
    /\ ncalls = 0
    /\ Len(layers) < MaxLayers
    /\ Fits(OutRank(layers), InRank(layer))
    /\ layers' = Append(layers, layer)
    /\ UNCHANGED <<epochs, lr, is_fitted, dataset, history, history_batch, pc, call,
                   log, pre, epochPre, last, sweeps, losses, everFitted, ncalls>>

\* Dense.setWeights on a layer of the network
SetWeights(i, weights, bias) ==
    /\ CanCall
    /\ i \in 1..Len(layers)
    /\ layers[i].kind = "Dense"
    /\ LET r == setWeights(layers[i], weights, bias)
       IN  /\ layers' = [layers EXCEPT ![i] = r.layer]
           /\ last' = [NoLast EXCEPT !.op = "setWeights", !.layer = i,
                           !.X = weights, !.Y = bias,
                           !.outcome = IF r.raised THEN "raised" ELSE "ok",
                           !.why = r.why]
    /\ pre' = Snapshot
    /\ ncalls' = ncalls + 1
    /\ log' = <<>>
    /\ UNCHANGED <<epochs, lr, is_fitted, dataset, history, history_batch, pc, call,
                   epochPre, sweeps, losses, everFitted>>

\* NN.fit, up to the loop over the epochs
FitCall(d) ==
    /\ CanCall
    /\ Accepts(d.X)
    /\ dataset' = d
    /\ history' = <<>>
    /\ call' = [NoCall EXCEPT !.op = "fit", !.X = d.X, !.y = d.Y, !.n_batches = 1]
    /\ pc' = "epoch"
    /\ pre' = Snapshot
    /\ last' = Started("fit", d.X, d.Y, 0)
    /\ log' = <<>>
    /\ sweeps' = <<>>
    /\ losses' = <<>>
    /\ ncalls' = ncalls + 1
    /\ UNCHANGED <<layers, epochs, lr, is_fitted, history_batch, epochPre, everFitted>>

\* the batch size check off by one
BatchTooLargeOffByOne(batchsize, n) == batchsize > n + 1

\* batchsize > X.shape[0]
BatchTooLarge(batchsize, n) == batchsize > n

\* NN.fit_batch, up to the loop over the epochs
FitBatchCall(d, batchsize) ==
    /\ CanCall
    /\ Accepts(d.X)
    /\ pre' = Snapshot
    /\ ncalls' = ncalls + 1
    /\ log' = <<>>
    /\ sweeps' = <<>>
    /\ losses' = <<>>
    /\ IF BatchTooLarge(batchsize, Len(d.X.data))
       THEN /\ last' = [Started("fit_batch", d.X, d.Y, batchsize) EXCEPT
                           !.outcome = "raised", !.why = "batchsize"]
            /\ UNCHANGED <<dataset, history, call, pc>>
       ELSE /\ dataset' = d
            /\ history' = <<>>
            /\ call' = [NoCall EXCEPT !.op = "fit_batch", !.X = d.X, !.y = d.Y,
                            !.batchsize = batchsize,
                            !.n_batches = Ceil(Len(d.X.data), batchsize)]
            /\ pc' = "epoch"
            /\ last' = Started("fit_batch", d.X, d.Y, batchsize)
    /\ UNCHANGED <<layers, epochs, lr, is_fitted, history_batch, epochPre, everFitted>>

\* for epoch in range(self.epochs): the next epoch begins
EpochBegin ==
    /\ pc = "epoch"
    /\ call.epoch < epochs
    /\ history_batch' = IF call.op = "fit_batch"
                        THEN [i \in 1..call.batchsize |-> 0]
                        ELSE history_batch
    /\ call' = [call EXCEPT !.batch = 0]
    /\ pc' = "batch"
    /\ epochPre' = Snapshot
    /\ sweeps' = Append(sweeps, <<>>)
    /\ losses' = Append(losses, <<>>)
    /\ log' = <<>>
    /\ UNCHANGED <<layers, epochs, lr, is_fitted, dataset, history, pre, last,
                   everFitted, ncalls>>

\* the loop over the epochs is over: self.is_fitted = True
FitReturn ==
    /\ pc = "epoch"
    /\ call.epoch >= epochs
    /\ is_fitted' = TRUE
    /\ everFitted' = TRUE
    /\ pc' = "idle"
    /\ call' = NoCall
    /\ last' = [last EXCEPT !.outcome = "ok"]
    /\ UNCHANGED <<layers, epochs, lr, dataset, history, history_batch, log, pre,
                   epochPre, sweeps, losses, ncalls>>

\* the rows of one sweep: all of them in fit, X[batch*batchsize:(batch+1)*batchsize, ] in fit_batch
Chunk(t, c) ==
    IF c.op = "fit" THEN t
    ELSE Slice(t, c.batch * c.batchsize, (c.batch + 1) * c.batchsize)

\* a sweep begins: output = X (fit) or the batch's rows of X (fit_batch)
SweepBegin ==
    /\ pc = "batch"
    /\ call.batch < call.n_batches
    /\ LET out == Chunk(call.X, call)
           lo == IF call.op = "fit" THEN 0 ELSE call.batch * call.batchsize
       IN  /\ call' = [call EXCEPT !.output = out, !.ychunk = Chunk(call.y, call),
                           !.idx = 1]
           /\ sweeps' = [sweeps EXCEPT ![Len(sweeps)] =
                             Append(@, <<lo, lo + Len(out.data)>>)]
    /\ log' = <<>>
    /\ pc' = "forward"
    /\ UNCHANGED <<layers, epochs, lr, is_fitted, dataset, history, history_batch,
                   pre, epochPre, last, losses, everFitted, ncalls>>

Failed(why, layer, phase) ==
    [last EXCEPT !.outcome = "raised", !.why = why, !.layer = layer, !.phase = phase]

\* for layer in self.layers: output = layer.forward(output)
ForwardStep ==
    /\ pc = "forward"
    /\ call.idx <= Len(layers)
    /\ LET i == call.idx
           r == Forward(layers[i], call.output)
       IN  /\ layers' = [layers EXCEPT ![i] = r.layer]
           /\ log' = Append(log, [op |-> "forward", layer |-> i,
                                  arg |-> call.output, ret |-> r.out])
           /\ IF r.raised
              THEN /\ pc' = "idle"
                   /\ call' = NoCall
                   /\ last' = Failed(r.why, i, "forward")
              ELSE /\ pc' = "forward"
                   /\ call' = [call EXCEPT !.output = r.out, !.idx = i + 1]
                   /\ last' = last
    /\ UNCHANGED <<epochs, lr, is_fitted, dataset, history, history_batch, pre,
                   epochPre, sweeps, losses, everFitted, ncalls>>

\* error = self.loss_prime(y, output)
LossPrime ==
    /\ pc = "forward"
    /\ call.idx > Len(layers)
    /\ call' = [call EXCEPT !.error = loss_prime(call.ychunk, call.output), !.idx = 1]
    /\ pc' = "backward"
    /\ UNCHANGED <<layers, epochs, lr, is_fitted, dataset, history, history_batch,
                   log, pre, epochPre, last, sweeps, losses, everFitted, ncalls>>

\* the backward loop going through the layers in insertion order
reversedForgotten(n, k) == k

\* reversed(self.layers): the k-th layer visited by the backward loop
reversed(n, k) == n + 1 - k

\* for layer in reversed(self.layers): error = layer.backward(error, self.lr)
BackwardStep ==
    /\ pc = "backward"
    /\ call.idx <= Len(layers)
    /\ LET i == reversed(Len(layers), call.idx)
           r == Backward(layers[i], call.error, lr)
       IN  /\ layers' = [layers EXCEPT ![i] = r.layer]
           /\ log' = Append(log, [op |-> "backward", layer |-> i,
                                  arg |-> call.error, ret |-> r.out])
           /\ IF r.raised
              THEN /\ pc' = "idle"
                   /\ call' = NoCall
                   /\ last' = Failed(r.why, i, "backward")
              ELSE /\ pc' = "backward"
                   /\ call' = [call EXCEPT !.error = r.out, !.idx = call.idx + 1]
                   /\ last' = last
    /\ UNCHANGED <<epochs, lr, is_fitted, dataset, history, history_batch, pre,
                   epochPre, sweeps, losses, everFitted, ncalls>>

\* np.average(self.history_batch): the sum of the buffer over its length
Average(buffer) == [num |-> SumSeq(buffer), den |-> Len(buffer)]

\* fit: err = self.loss(y, output); self.history[epoch] = err
FitRecord ==
    /\ pc = "backward"
    /\ call.idx > Len(layers)
    /\ call.op = "fit"
    /\ LET err == loss(call.ychunk, call.output)
       IN  /\ history' = Append(history, [num |-> err, den |-> 1])
           /\ losses' = [losses EXCEPT ![Len(losses)] = Append(@, err)]
    /\ call' = [call EXCEPT !.epoch = call.epoch + 1]
    /\ pc' = "epoch"
    /\ UNCHANGED <<layers, epochs, lr, is_fitted, dataset, history_batch, log, pre,
                   epochPre, last, sweeps, everFitted, ncalls>>

\* fit_batch: err = self.loss(...); self.history_batch[0, batch] = err
BatchRecord ==
    /\ pc = "backward"
    /\ call.idx > Len(layers)
    /\ call.op = "fit_batch"
    /\ LET err == loss(call.ychunk, call.output)
       IN  /\ losses' = [losses EXCEPT ![Len(losses)] = Append(@, err)]
           /\ IF call.batch >= Len(history_batch)
              THEN \* IndexError: index batch is out of bounds for axis 1
                   /\ pc' = "idle"
                   /\ call' = NoCall
                   /\ last' = Failed("index", 0, "record")
                   /\ UNCHANGED history_batch
              ELSE /\ history_batch' = [history_batch EXCEPT ![call.batch + 1] = err]
                   /\ call' = [call EXCEPT !.batch = call.batch + 1]
                   /\ pc' = "batch"
                   /\ last' = last
    /\ UNCHANGED <<layers, epochs, lr, is_fitted, dataset, history, log, pre,
                   epochPre, sweeps, everFitted, ncalls>>

\* fit_batch: self.history[epoch] = np.average(self.history_batch)
EpochEnd ==
    /\ pc = "batch"
    /\ call.batch >= call.n_batches
    /\ history' = Append(history, Average(history_batch))
    /\ call' = [call EXCEPT !.epoch = call.epoch + 1]
    /\ pc' = "epoch"
    /\ UNCHANGED <<layers, epochs, lr, is_fitted, dataset, history_batch, log, pre,
                   epochPre, last, sweeps, losses, everFitted, ncalls>>

\* the assertion left out
AssertFittedLeftOut(fitted) == TRUE

\* assert self.is_fitted, "Model must be fitted before prediction"
AssertFitted(fitted) == fitted

\* cost always on the stored dataset's X
CostXIgnoresArgument(X, d) == d.X

\* X if X is not None else self.dataset.X
CostX(X, d) == IF X # None THEN X ELSE d.X

\* Y if Y is not None else self.dataset.Y
CostY(Y, d) == IF Y # None THEN Y ELSE d.Y

\* NN.predict, up to the loop over the layers
PredictCall(x) ==
    /\ CanCall
    /\ Accepts(x)
    /\ pre' = Snapshot
    /\ ncalls' = ncalls + 1
    /\ log' = <<>>
    /\ IF AssertFitted(is_fitted)
       THEN /\ call' = [NoCall EXCEPT !.op = "predict", !.output = x, !.idx = 1]
            /\ pc' = "predict"
            /\ last' = Started("predict", x, None, 0)
       ELSE /\ last' = [Started("predict", x, None, 0) EXCEPT
                           !.outcome = "raised", !.why = "assert"]
            /\ UNCHANGED <<call, pc>>
    /\ UNCHANGED <<layers, epochs, lr, is_fitted, dataset, history, history_batch,
                   epochPre, sweeps, losses, everFitted>>

\* NN.cost, up to the loop over the layers of the predict it calls
CostCall(X, Y) ==
    /\ CanCall
    /\ X # None => Accepts(X)
    /\ pre' = Snapshot
    /\ ncalls' = ncalls + 1
    /\ log' = <<>>
    /\ IF AssertFitted(is_fitted)
       THEN /\ call' = [NoCall EXCEPT !.op = "cost", !.output = CostX(X, dataset),
                            !.y = CostY(Y, dataset), !.idx = 1]
            /\ pc' = "predict"
            /\ last' = Started("cost", X, Y, 0)
       ELSE /\ last' = [Started("cost", X, Y, 0) EXCEPT
                           !.outcome = "raised", !.why = "assert"]
            /\ UNCHANGED <<call, pc>>
    /\ UNCHANGED <<layers, epochs, lr, is_fitted, dataset, history, history_batch,
                   epochPre, sweeps, losses, everFitted>>

\* predict: for layer in self.layers: output = layer.forward(output)
PredictStep ==
    /\ pc = "predict"
    /\ call.idx <= Len(layers)
    /\ LET i == call.idx
           r == Forward(layers[i], call.output)
       IN  /\ layers' = [layers EXCEPT ![i] = r.layer]
           /\ log' = Append(log, [op |-> "forward", layer |-> i,
                                  arg |-> call.output, ret |-> r.out])
           /\ IF r.raised
              THEN /\ pc' = "idle"
                   /\ call' = NoCall
                   /\ last' = Failed(r.why, i, "forward")
              ELSE /\ pc' = "predict"
                   /\ call' = [call EXCEPT !.output = r.out, !.idx = i + 1]
                   /\ last' = last
    /\ UNCHANGED <<epochs, lr, is_fitted, dataset, history, history_batch, pre,
                   epochPre, sweeps, losses, everFitted, ncalls>>

\* predict: return output; cost: return self.loss(Y, output)
PredictReturn ==
    /\ pc = "predict"
    /\ call.idx > Len(layers)
    /\ last' = [last EXCEPT !.outcome = "ok", !.ret = call.output,
                    !.value = IF call.op = "cost" THEN loss(call.y, call.output) ELSE 0]
    /\ pc' = "idle"
    /\ call' = NoCall
    /\ UNCHANGED <<layers, epochs, lr, is_fitted, dataset, history, history_batch,
                   log, pre, epochPre, sweeps, losses, everFitted, ncalls>>

CostArgs == {<<None, None>>} \cup {<<d.X, d.Y>> : d \in Inputs}

Next ==
    \/ \E layer \in LayerCatalog : Add(layer)
    \/ \E i \in 1..MaxLayers, w \in WeightArgs, b \in BiasArgs : SetWeights(i, w, b)
    \/ \E d \in Datasets : FitCall(d)
    \/ \E d \in Datasets : \E b \in BatchSizes(d) : FitBatchCall(d, b)
    \/ EpochBegin
    \/ SweepBegin
    \/ ForwardStep
    \/ LossPrime
    \/ BackwardStep
    \/ FitRecord
    \/ BatchRecord
    \/ EpochEnd
    \/ FitReturn
    \/ \E d \in Inputs : PredictCall(d.X)
    \/ \E a \in CostArgs : CostCall(a[1], a[2])
    \/ PredictStep
    \/ PredictReturn

Spec == Init /\ [][Next]_vars

\* ---- properties
ParamsOf(ls) == [i \in 1..Len(ls) |-> Params(ls[i])]
Training == last.op \in {"fit", "fit_batch"}
Using == last.op \in {"predict", "cost"}

\* C1: on a network on which no fit or fit_batch call has completed, predict
\* and cost raise without calling any layer's forward; is_fitted is true
\* exactly from the first completed fit or fit_batch call on, and stays true.
C1_UnfittedUseFails ==
    /\ (Using /\ ~everFitted) =>
          /\ pc = "idle"
          /\ last.outcome = "raised"
          /\ last.why = "assert"
          /\ log = <<>>
          /\ layers = pre.layers
    /\ is_fitted = everFitted

\* an unfitted network with layers, after a fit call that failed, refuses cost
C1_Witness ==
    /\ last.op = "cost"
    /\ last.outcome = "raised"
    /\ ~everFitted
    /\ dataset # NoDataset
    /\ Len(layers) >= 2

\* the rows of the current sweep, from the row range recorded for it
SweepRows(t) ==
    LET r == sweeps[Len(sweeps)][Len(sweeps[Len(sweeps)])]
    IN  Tensor(t.dims, SubSeq(t.data, r[1] + 1, r[2]))

\* C2: in every sweep of fit and fit_batch the forward calls go through the
\* layers in insertion order, each on the previous layer's output (the first
\* on the sweep's rows of X); the backward calls follow in the reverse order,
\* the last layer on the loss derivative and every other layer on the
\* gradient returned by the layer after it; so each backward comes after
\* exactly one forward of its layer in the sweep; a finished sweep has
\* called every layer twice.
C2_SweepOrder ==
    Training =>
        LET n == Len(layers)
        IN  /\ Len(log) <= 2 * n
            /\ \A k \in 1..Len(log) :
                  IF k <= n
                  THEN /\ log[k].op = "forward"
                       /\ log[k].layer = k
                       /\ log[k].arg = IF k = 1 THEN SweepRows(last.X) ELSE log[k - 1].ret
                  ELSE /\ log[k].op = "backward"
                       /\ log[k].layer = 2 * n + 1 - k
                       /\ log[k].arg = IF k = n + 1
                                       THEN loss_prime(SweepRows(last.Y), log[n].ret)
                                       ELSE log[k - 1].ret
            /\ (pc = "backward" /\ call.idx > n) => Len(log) = 2 * n

\* the second sweep of a fit_batch epoch is through, on a network of two or more layers
C2_Witness ==
    /\ last.op = "fit_batch"
    /\ Len(layers) >= 2
    /\ pc = "backward"
    /\ Len(log) = 2 * Len(layers)
    /\ Len(sweeps[Len(sweeps)]) = 2
    /\ \E i \in 1..Len(layers) : layers[i].kind = "Dense"

\* the row ranges of an epoch: [k*b, min((k+1)*b, n)) for k = 0..ceil(n/b)-1
ExpectedSweeps(n, b) ==
    [k \in 1..Ceil(n, b) |-> <<(k - 1) * b, Min(k * b, n)>>]

\* the call failed in a layer
LayerFailed == last.phase \in {"forward", "backward"}

\* C3: a fit_batch call with batch size b <= N (on layers that do not fail)
\* completes all its epochs, each of ceil(N/b) sweeps on the contiguous row
\* ranges [k*b, min((k+1)*b, N)) in increasing k.
C3_BatchesCoverEveryEpoch ==
    (pc = "idle" /\ last.op = "fit_batch" /\ last.b <= last.n /\ ~LayerFailed) =>
        /\ last.outcome = "ok"
        /\ Len(sweeps) = epochs
        /\ \A e \in 1..Len(sweeps) : sweeps[e] = ExpectedSweeps(last.n, last.b)

\* C4: after a completed fit_batch call, history[e] is the sum of the losses
\* of epoch e's sweeps divided by their number (num/den compared crosswise).
C4_HistoryIsBatchAverage ==
    (pc = "idle" /\ last.op = "fit_batch" /\ last.outcome = "ok") =>
        /\ Len(history) = epochs
        /\ \A e \in 1..Len(history) :
              history[e].num * Len(losses[e]) = SumSeq(losses[e]) * history[e].den

\* C5: fit_batch with a batch size larger than the sample count raises with
\* no layer called and layers, dataset, history and is_fitted as before the call.
C5_OversizedBatchRejected ==
    (last.op = "fit_batch" /\ last.b > last.n) =>
        /\ pc = "idle"
        /\ last.outcome = "raised"
        /\ last.why = "batchsize"
        /\ log = <<>>
        /\ Snapshot = pre

\* a fitted network with trained layers refuses an oversized batch
C5_Witness ==
    /\ last.op = "fit_batch"
    /\ last.b > last.n
    /\ last.outcome = "raised"
    /\ is_fitted
    /\ history # <<>>
    /\ \E i \in 1..Len(layers) : layers[i].kind = "Dense" /\ layers[i].input # None

\* C6: when a fit or fit_batch call fails during an epoch, the layers'
\* parameters, the history and is_fitted are as they were when that epoch began.
C6_NoPartialEpoch ==
    (pc = "idle" /\ Training /\ last.outcome = "raised" /\ last.why # "batchsize") =>
        /\ ParamsOf(layers) = ParamsOf(epochPre.layers)
        /\ history = epochPre.history
        /\ is_fitted = epochPre.is_fitted

\* C7: Dense.setWeights raises when the shape of weights or of bias differs
\* from the layer's, leaving weights and bias as they were (also when only
\* the bias is wrong); when both shapes match, both are replaced.
C7_SetWeightsAllOrNothing ==
    last.op = "setWeights" =>
        LET before == pre.layers[last.layer]
            after == layers[last.layer]
        IN  IF last.X.shape # before.wshape \/ last.Y.shape # before.bshape
            THEN last.outcome = "raised" /\ after = before
            ELSE /\ last.outcome = "ok"
                 /\ after.weights = last.X.val
                 /\ after.bias = last.Y.val
                 /\ after = [before EXCEPT !.weights = last.X.val, !.bias = last.Y.val]

\* weights of the right shape with a bias of the wrong shape, on a trained layer
C7_Witness ==
    /\ last.op = "setWeights"
    /\ last.outcome = "raised"
    /\ last.X.shape = layers[last.layer].wshape
    /\ last.Y.shape # layers[last.layer].bshape
    /\ last.X.val # layers[last.layer].weights
    /\ everFitted

\* C8: on a fitted network predict and cost call forward only, through the
\* layers in insertion order; parameters, history, is_fitted and the stored
\* dataset stay as they were; predict returns the last layer's output; cost
\* runs on the supplied X and Y, or on the stored dataset's when none is
\* supplied, and returns the loss of the output against that Y.
C8_UseLeavesModelAlone ==
    (Using /\ pre.is_fitted) =>
        LET n == Len(layers)
            X == IF last.op = "cost" /\ last.X = None THEN pre.dataset.X ELSE last.X
            Y == IF last.Y = None THEN pre.dataset.Y ELSE last.Y
        IN  /\ Len(log) <= n
            /\ \A k \in 1..Len(log) :
                  /\ log[k].op = "forward"
                  /\ log[k].layer = k
                  /\ log[k].arg = IF k = 1 THEN X ELSE log[k - 1].ret
            /\ ParamsOf(layers) = ParamsOf(pre.layers)
            /\ history = pre.history
            /\ is_fitted = pre.is_fitted
            /\ dataset = pre.dataset
            /\ last.outcome = "ok" =>
                  /\ Len(log) = n
                  /\ last.ret = IF n = 0 THEN X ELSE log[n].ret
                  /\ last.op = "cost" => last.value = loss(Y, last.ret)

\* cost on supplied data other than the stored dataset, through two or more layers
C8_Witness ==
    /\ last.op = "cost"
    /\ last.outcome = "ok"
    /\ last.X # None
    /\ last.X # dataset.X
    /\ Len(layers) >= 2
    /\ \E i \in 1..Len(layers) : layers[i].kind = "Dense"

\* the cached state of a pooling layer
PoolCache(l) == <<l.X_shape, l.X_col, l.max_idx>>

\* C9: Pooling2D.forward rejects exactly the inputs for which
\* (h - size)/stride + 1 or (w - size)/stride + 1 is not an integer, and
\* after a rejected forward X_shape, X_col and max_idx are as before it.
C9_PoolingRejectsBeforeMutation ==
    /\ \A k \in 1..Len(log) :
          LET l == layers[log[k].layer]
              t == log[k].arg
          IN  (log[k].op = "forward" /\ l.kind = "MaxPooling2D" /\ Len(t.dims) = 3) =>
                  ((k = Len(log) /\ last.why = "geometry")
                     <=> ((t.dims[1] - l.size) % l.stride # 0 \/ (t.dims[2] - l.size) % l.stride # 0))
    /\ last.why = "geometry" =>
          PoolCache(layers[last.layer]) = PoolCache(pre.layers[last.layer])

\* C10: Conv2D.forward yields floor((in + 2*padding - k)/stride) + 1 rows and
\* columns, and rejects an input for which (in + 2*padding - k)/stride is
\* not an integer on either axis.
C10_ConvRejectsFractionalExtent ==
    \A k \in 1..Len(log) :
        LET l == layers[log[k].layer]
            t == log[k].arg
        IN  (log[k].op = "forward" /\ l.kind = "Conv2D" /\ Len(t.dims) = 3) =>
                LET rows == t.dims[1] + 2 * l.padding - l.wshape[1]
                    cols == t.dims[2] + 2 * l.padding - l.wshape[2]
                IN  IF rows % l.stride # 0 \/ cols % l.stride # 0
                    THEN log[k].ret = None
                    ELSE log[k].ret # None =>
                            /\ log[k].ret.dims[1] = rows \div l.stride + 1
                            /\ log[k].ret.dims[2] = cols \div l.stride + 1

====
